---- MODULE Spec2Model ----
(***************************************************************************)
(* State-machine model of VectorRC.py: the RemoteControlVector controller  *)
(* (intent state, motion policy, action queue, animation bindings) and the *)
(* Flask route handlers that drive it.                                     *)
(*                                                                         *)
(* Fixed point.  The program computes with Python floats; the model uses   *)
(* integers on grids where every product and quotient is exact:            *)
(*   mouse_x, mouse_y            tenths of the window (10 = 1.0)           *)
(*   mouse_dir                   tenths (15 = 1.5)                         *)
(*   wheel speeds, lift speed    the program's units (mm/s)                *)
(*   head velocity               hundredths (50 = 0.5)                     *)
(* Python's bool is an int (True = 1), so the key flags are 0/1.           *)
(***************************************************************************)
EXTENDS Integers, Sequences, FiniteSets, TLC

\* ---------------------------------------------------------------- bounds
MaxEnq == 12            \* enqueues per behaviour (12 = one overflow of the queue)
MaxRetry == 2           \* dispatches that report "not complete", per behaviour
MaxDepth == 2           \* recursion depth of setTorchMode that is explored
MaxPending == 2         \* enqueues per behaviour where every route is explored
MaxMixed == 6           \* first enqueues that may be animations in the long queue runs
MaxFrames == 3          \* camera frames that arrive per behaviour

\* ------------------------------------------------------------- key codes
KEY_W == 87
KEY_S == 83
KEY_A == 65
KEY_D == 68
KEY_R == 82
KEY_F == 70
KEY_T == 84
KEY_G == 71
KEY_H == 72
KEY_0 == 48
KEY_9 == 57
KEY_SPACE == 32
KEY_X == KEY_W + 1      \* a key the program binds to nothing
KEY_5 == KEY_0 + 5
KEY_7 == KEY_0 + 7

\* fixed-point scales
MouseScale == 10
HeadScale == 100

B2I(b) == IF b THEN 1 ELSE 0

\* a robot command as the controller issues it
Cmd(name, args) == [cmd |-> name, args |-> args]

\* --------------------------------------------------------------- catalog
\* The animation names the model draws the robot's anim_list from, in the
\* order list.sort() gives them (code point order: upper case first).
AllAnimNames ==
  << "ANIMATION_TEST",
     "anim_blackjack_victorwin_01",
     "anim_eyepose_sad_down",
     "anim_feedback_shutup_01",
     "anim_fistbump_success_01",
     "anim_knowledgegraph_success_01",
     "anim_pounce_success_02",
     "anim_reacttoface_unidentified_01",
     "anim_rtpickup_loop_10",
     "anim_turn_left_01",
     "anim_volume_stage_05",
     "anim_wakeword_groggyeyes_listenloop_01",
     "soundTestAnim" >>

bad_anim_names == {"ANIMATION_TEST", "soundTestAnim"}

default_anims_for_keys ==
  << "anim_turn_left_01",
     "anim_blackjack_victorwin_01",
     "anim_pounce_success_02",
     "anim_feedback_shutup_01",
     "anim_knowledgegraph_success_01",
     "anim_wakeword_groggyeyes_listenloop_01",
     "anim_fistbump_success_01",
     "anim_reacttoface_unidentified_01",
     "anim_rtpickup_loop_10",
     "anim_volume_stage_05" >>

\* all_anim_names.sort() followed by the bad_anim_names filter: the names of
\* the set `anim_list`, ascending, without the hidden ones.
RECURSIVE FilterSorted(_, _)
FilterSorted(anim_list, i) ==
  IF i > Len(AllAnimNames) THEN << >>
  ELSE LET rest == FilterSorted(anim_list, i + 1)
           n == AllAnimNames[i]
       IN IF n \in anim_list /\ n \notin bad_anim_names THEN << n >> \o rest ELSE rest

\* list.index(x): the 0-based position of the first x, -1 standing for ValueError
RECURSIVE IndexFrom(_, _, _)
IndexFrom(s, x, i) ==
  IF i > Len(s) THEN -1
  ELSE IF s[i] = x THEN i - 1 ELSE IndexFrom(s, x, i + 1)

ListIndex(s, x) == IndexFrom(s, x, 1)

\* the binding loop without the look-up: every slot gets its own number
InitAnimIndexForKey_sequential(names) == [kI \in 0..9 |-> kI]

\* the binding loop with slot 0's index as the fallback
InitAnimIndexForKey_fallback_zero(names) ==
  [kI \in 0..9 |->
     LET anim_idx == ListIndex(names, default_anims_for_keys[kI + 1])
     IN IF anim_idx = -1 THEN 0 ELSE anim_idx]

\* the binding loop of __init__: slot kI gets the catalog index of its default
\* name, or kI itself when the name is missing
InitAnimIndexForKey(names) ==
  [kI \in 0..9 |->
     LET anim_idx == ListIndex(names, default_anims_for_keys[kI + 1])
     IN IF anim_idx = -1 THEN kI ELSE anim_idx]

\* names[i] as Python evaluates it for i >= 0: IndexError past the end
ValidIndex(names, i) == i >= 0 /\ i < Len(names)

\* ------------------------------------------------------------------ remap
\* remap_to_range without the two range tests
remap_to_range_extrapolate(x, x_min, x_max, out_min, out_max) ==
  out_min + ((x - x_min) * (out_max - out_min)) \div (x_max - x_min)

\* remap_to_range on the integer grid (the division is exact on it)
remap_to_range(x, x_min, x_max, out_min, out_max) ==
  IF x < x_min THEN out_min
  ELSE IF x > x_max THEN out_max
  ELSE out_min + ((x - x_min) * (out_max - out_min)) \div (x_max - x_min)

\* ----------------------------------------------------------- motion policy
\* pick_speed where shift wins over alt
pick_speed_fast_wins(gf, gs, fast_speed, mid_speed, slow_speed) ==
  IF gf # 0 THEN fast_speed
  ELSE (IF gs # 0 THEN slow_speed ELSE mid_speed)

pick_speed(gf, gs, fast_speed, mid_speed, slow_speed) ==
  IF gf # 0
    THEN (IF gs = 0 THEN fast_speed ELSE mid_speed)
    ELSE (IF gs # 0 THEN slow_speed ELSE mid_speed)

\* update_lift: the set_lift_motor command
update_lift(up, down, gf, gs) ==
  LET lift_speed == pick_speed(gf, gs, 8, 4, 2)
      lift_vel == (up - down) * lift_speed
  IN << Cmd("set_lift_motor", << lift_vel >>) >>

\* update_head that does not look at the mouse-look mode
update_head_in_any_mode(up, down, gf, gs, mouse_look) ==
  LET head_speed == pick_speed(gf, gs, 2 * HeadScale, 1 * HeadScale, HeadScale \div 2)
      head_vel == (up - down) * head_speed
  IN << Cmd("set_head_motor", << head_vel >>) >>

\* update_head: the set_head_motor command (hundredths), none in mouse-look
update_head(up, down, gf, gs, mouse_look) ==
  IF ~mouse_look
    THEN LET head_speed == pick_speed(gf, gs, 2 * HeadScale, 1 * HeadScale, HeadScale \div 2)
             head_vel == (up - down) * head_speed
         IN << Cmd("set_head_motor", << head_vel >>) >>
    ELSE << >>

\* update_mouse_driving without the mirrored steering when reversing
update_mouse_driving_no_mirror(fwd, back, left, right, md, gf, gs) ==
  LET drive_dir == fwd - back
      turn_dir == (right - left) * MouseScale + md
      forward_speed == pick_speed(gf, gs, 150, 75, 50)
      turn_speed == pick_speed(gf, gs, 100, 50, 30)
      l_wheel_speed == (drive_dir * forward_speed) + (turn_speed * turn_dir) \div MouseScale
      r_wheel_speed == (drive_dir * forward_speed) - (turn_speed * turn_dir) \div MouseScale
  IN << Cmd("set_wheel_motors",
            << l_wheel_speed, r_wheel_speed, l_wheel_speed * 4, r_wheel_speed * 4 >>) >>

\* update_mouse_driving: the set_wheel_motors command; md is mouse_dir in tenths
update_mouse_driving(fwd, back, left, right, md, gf, gs) ==
  LET drive_dir == fwd - back
      turn0 == (right - left) * MouseScale + md
      turn_dir == IF drive_dir < 0 THEN -turn0 ELSE turn0
      forward_speed == pick_speed(gf, gs, 150, 75, 50)
      turn_speed == pick_speed(gf, gs, 100, 50, 30)
      l_wheel_speed == (drive_dir * forward_speed) + (turn_speed * turn_dir) \div MouseScale
      r_wheel_speed == (drive_dir * forward_speed) - (turn_speed * turn_dir) \div MouseScale
  IN << Cmd("set_wheel_motors",
            << l_wheel_speed, r_wheel_speed, l_wheel_speed * 4, r_wheel_speed * 4 >>) >>

\* ------------------------------------------------------------ action queue
\* queue_action with the capacity test off by one
queue_action_off_by_one(q, new_action) ==
  IF Len(q) > 11 THEN Append(Tail(q), new_action) ELSE Append(q, new_action)

\* queue_action: the queue after new_action is queued
queue_action(q, new_action) ==
  IF Len(q) > 10 THEN Append(Tail(q), new_action) ELSE Append(q, new_action)


\* the viewers whose streams the model follows
Readers == {1, 2}

\* ------------------------------------------------------------------ state
VARIABLES
  session,                \* flask_app.remote_control_vector is set (truthy)
  drive_forwards, drive_back, turn_left, turn_right,
  lift_up, lift_down, head_up, head_down,
  go_fast, go_slow,
  is_mouse_look_enabled, torchIsEnabled,
  mouse_dir,              \* tenths
  anim_names,             \* the catalog, a 1-based sequence (Python index i is i + 1)
  anim_index_for_key,     \* slot 0..9 -> catalog index (0-based, as in the program)
  action_queue,           \* sequence of [func, args, id]; id is the enqueue number (history)
  text_to_say,
  emitted,                \* the robot commands the last handler issued, in order
  fault,                  \* the last handler ended in an uncaught exception
  op,                     \* route of the last request served ("run" for start-up), or
                          \* the step outside the routes that was taken last
  pc, depth,              \* "idle", or inside the setTorchMode recursion at `depth`
  nenq,                   \* history: number of queue_action calls so far
  nfailed,                \* history: dispatches that reported "not complete"
  dispatch_log,           \* history: ids of the queue entries dispatched, in order
  evicted,                \* history: ids of the queue entries queue_action dropped
  response,               \* the body the last handler returned (<< >> is the empty string)
  latest_image,           \* vector.camera.latest_image: None until the first frame
  streams,                \* the streaming_video generators that are running
  yielded,                \* per generator, the image of its last chunk (None: no chunk yet)
  last_wheel,             \* history: arguments of the last set_wheel_motors sent
  last_lift               \* history: arguments of the last set_lift_motor sent

keyflags == << drive_forwards, drive_back, turn_left, turn_right,
               lift_up, lift_down, head_up, head_down >>
speedflags == << go_fast, go_slow >>
modes == << is_mouse_look_enabled, torchIsEnabled, mouse_dir >>
anims == << anim_names, anim_index_for_key >>
queue == << action_queue, nenq >>
hist == << nfailed, dispatch_log, evicted >>
torch == << pc, depth >>
controller == << keyflags, speedflags, modes, anims, queue, text_to_say >>
feed == << latest_image, streams, yielded >>
sent == << last_wheel, last_lift >>
vars == << session, controller, emitted, fault, op, torch, hist, response, feed, sent >>

\* the arguments of the last command `name` in out, or prev when there is none
LastArgs(out, name, prev) ==
  LET S == { i \in 1..Len(out) : out[i].cmd = name }
  IN IF S = {} THEN prev ELSE out[CHOOSE i \in S : \A j \in S : j <= i].args

\* history: what the motors were told last, after the commands of this step
Track ==
  /\ last_wheel' = LastArgs(emitted', "set_wheel_motors", last_wheel)
  /\ last_lift' = LastArgs(emitted', "set_lift_motor", last_lift)

\* The module is loaded: flask_app exists, run() has not yet bound a controller.
\* The controller fields carry the values __init__ will give them.
Init ==
  /\ session = FALSE
  /\ drive_forwards = 0 /\ drive_back = 0 /\ turn_left = 0 /\ turn_right = 0
  /\ lift_up = 0 /\ lift_down = 0 /\ head_up = 0 /\ head_down = 0
  /\ go_fast = 0 /\ go_slow = 0
  /\ is_mouse_look_enabled = FALSE /\ torchIsEnabled = FALSE
  /\ mouse_dir = 0
  /\ anim_names = << >>
  /\ anim_index_for_key = [k \in 0..9 |-> 0]
  /\ action_queue = << >>
  /\ text_to_say = "Hi I'm Vector"
  /\ emitted = << >> /\ fault = FALSE /\ op = "" 
  /\ pc = "idle" /\ depth = 0
  /\ nenq = 0 /\ nfailed = 0 /\ dispatch_log = << >> /\ evicted = {}
  /\ response = << >>
  /\ latest_image = << >> /\ streams = {} /\ yielded = [r \in Readers |-> << >>]
  /\ last_wheel = << 0, 0, 0, 0 >> /\ last_lift = << 0 >>

\* ------------------------------------------------------------- start-up
\* run(): RemoteControlVector(robot) is built from the robot's anim_list and
\* bound to flask_app before the server starts.
run(anim_list) ==
  /\ ~session /\ pc = "idle"
  /\ session' = TRUE
  /\ drive_forwards' = 0 /\ drive_back' = 0 /\ turn_left' = 0 /\ turn_right' = 0
  /\ lift_up' = 0 /\ lift_down' = 0 /\ head_up' = 0 /\ head_down' = 0
  /\ go_fast' = 0 /\ go_slow' = 0
  /\ is_mouse_look_enabled' = FALSE /\ torchIsEnabled' = FALSE
  /\ mouse_dir' = 0
  /\ anim_names' = FilterSorted(anim_list, 1)
  /\ anim_index_for_key' = InitAnimIndexForKey(anim_names')
  /\ action_queue' = << >>
  /\ text_to_say' = "Hi I'm Vector"
  /\ emitted' = << Cmd("set_eye_color", << 0, 100 >>) >>
  /\ fault' = FALSE /\ op' = "run"
  /\ UNCHANGED << nenq, torch, hist, response, feed, sent >>

\* --------------------------------------------------------------- handle_key
\* update_drive_state that asks for a wheel command on every key event
update_drive_state_always(key_code, is_key_down, speed_changed) ==
  [ update_driving |-> TRUE,
    drive_forwards |-> IF key_code = KEY_W THEN B2I(is_key_down) ELSE drive_forwards,
    drive_back     |-> IF key_code = KEY_S THEN B2I(is_key_down) ELSE drive_back,
    turn_left      |-> IF key_code = KEY_A THEN B2I(is_key_down) ELSE turn_left,
    turn_right     |-> IF key_code = KEY_D THEN B2I(is_key_down) ELSE turn_right ]

\* update_drive_state that asks for a wheel command for the wheel keys only
update_drive_state_keys_only(key_code, is_key_down, speed_changed) ==
  [ update_driving |-> key_code \in {KEY_W, KEY_S, KEY_A, KEY_D},
    drive_forwards |-> IF key_code = KEY_W THEN B2I(is_key_down) ELSE drive_forwards,
    drive_back     |-> IF key_code = KEY_S THEN B2I(is_key_down) ELSE drive_back,
    turn_left      |-> IF key_code = KEY_A THEN B2I(is_key_down) ELSE turn_left,
    turn_right     |-> IF key_code = KEY_D THEN B2I(is_key_down) ELSE turn_right ]

update_drive_state(key_code, is_key_down, speed_changed) ==
  [ update_driving |-> key_code \in {KEY_W, KEY_S, KEY_A, KEY_D} \/ speed_changed,
    drive_forwards |-> IF key_code = KEY_W THEN B2I(is_key_down) ELSE drive_forwards,
    drive_back     |-> IF key_code = KEY_S THEN B2I(is_key_down) ELSE drive_back,
    turn_left      |-> IF key_code = KEY_A THEN B2I(is_key_down) ELSE turn_left,
    turn_right     |-> IF key_code = KEY_D THEN B2I(is_key_down) ELSE turn_right ]

update_lift_state(key_code, is_key_down, speed_changed) ==
  [ update_lift |-> key_code \in {KEY_R, KEY_F} \/ speed_changed,
    lift_up     |-> IF key_code = KEY_R THEN B2I(is_key_down) ELSE lift_up,
    lift_down   |-> IF key_code = KEY_F THEN B2I(is_key_down) ELSE lift_down ]

update_head_state(key_code, is_key_down, speed_changed) ==
  [ update_head |-> key_code \in {KEY_T, KEY_G} \/ speed_changed,
    head_up     |-> IF key_code = KEY_T THEN B2I(is_key_down) ELSE head_up,
    head_down   |-> IF key_code = KEY_G THEN B2I(is_key_down) ELSE head_down ]

\* make_vector_dock_with_charger bound to the wrong key
make_vector_dock_with_charger_wrong_key(key_code) ==
  [ ret |-> TRUE,
    out |-> IF key_code = KEY_G THEN << Cmd("drive_on_charger", << >>) >> ELSE << >> ]

\* make_vector_dock_with_charger: what it sends, and its return value
make_vector_dock_with_charger(key_code) ==
  [ ret |-> TRUE,
    out |-> IF key_code = KEY_H THEN << Cmd("drive_on_charger", << >>) >> ELSE << >> ]

\* the (func, args) tuple handle_key queues on a key release, if any:
\* "none", "IndexError" (key_code_to_anim_name failed), or the tuple
ReleaseAction(key_code, is_key_down) ==
  IF is_key_down THEN [kind |-> "none"]
  ELSE IF KEY_9 >= key_code /\ key_code >= KEY_0
    THEN LET key_num == key_code - KEY_0
             anim_num == anim_index_for_key[key_num]
         IN IF ValidIndex(anim_names, anim_num)
              THEN [kind |-> "queue", func |-> "play_animation", args |-> anim_names[anim_num + 1]]
              ELSE [kind |-> "IndexError"]
  ELSE IF key_code = KEY_SPACE
    THEN [kind |-> "queue", func |-> "say_text", args |-> text_to_say]
  ELSE [kind |-> "none"]

\* the ids of the entries of a queue
Ids(q) == { q[i].id : i \in 1..Len(q) }

handle_key(key_code, is_shift_down, is_alt_down, is_key_down) ==
  LET was_go_fast == go_fast
      was_go_slow == go_slow
      new_fast == B2I(is_shift_down)
      new_slow == B2I(is_alt_down)
      speed_changed == (was_go_fast # new_fast) \/ (was_go_slow # new_slow)
      d == update_drive_state(key_code, is_key_down, speed_changed)
      l == update_lift_state(key_code, is_key_down, speed_changed)
      h == update_head_state(key_code, is_key_down, speed_changed)
      dock == make_vector_dock_with_charger(key_code)
      out_drive == IF d.update_driving
                     THEN update_mouse_driving(d.drive_forwards, d.drive_back, d.turn_left,
                                               d.turn_right, mouse_dir, new_fast, new_slow)
                     ELSE << >>
      out_head == IF h.update_head
                    THEN update_head(h.head_up, h.head_down, new_fast, new_slow,
                                     is_mouse_look_enabled)
                    ELSE << >>
      out_lift == IF l.update_lift
                    THEN update_lift(l.lift_up, l.lift_down, new_fast, new_slow)
                    ELSE << >>
      out_dock == IF dock.ret THEN make_vector_dock_with_charger(key_code).out ELSE << >>
      rel == ReleaseAction(key_code, is_key_down)
  IN /\ go_fast' = new_fast /\ go_slow' = new_slow
     /\ drive_forwards' = d.drive_forwards /\ drive_back' = d.drive_back
     /\ turn_left' = d.turn_left /\ turn_right' = d.turn_right
     /\ lift_up' = l.lift_up /\ lift_down' = l.lift_down
     /\ head_up' = h.head_up /\ head_down' = h.head_down
     /\ emitted' = dock.out \o out_drive \o out_head \o out_lift \o out_dock
     /\ IF rel.kind = "queue"
          THEN /\ action_queue' = queue_action(action_queue,
                                     [func |-> rel.func, args |-> rel.args, id |-> nenq + 1])
               /\ nenq' = nenq + 1
               /\ evicted' = evicted \cup (Ids(action_queue) \ Ids(action_queue'))
          ELSE UNCHANGED << action_queue, nenq, evicted >>
     /\ fault' = (rel.kind = "IndexError")
     /\ UNCHANGED << modes, anims, text_to_say >>

\* what every handler leaves alone when there is no controller to call
NoSession == UNCHANGED << controller, torch, hist >> /\ emitted' = << >> /\ fault' = FALSE

\* /keydown and /keyup
handle_key_event(keyCode, hasShift, hasAlt, is_key_down) ==
  /\ pc = "idle"
  /\ op' = IF is_key_down THEN "/keydown" ELSE "/keyup"
  /\ response' = << >> /\ UNCHANGED feed
  /\ UNCHANGED session
  /\ IF session
       THEN /\ handle_key(keyCode, hasShift, hasAlt, is_key_down)
            /\ UNCHANGED << torch, nfailed, dispatch_log >>
       ELSE NoSession
  /\ Track


\* ------------------------------------------------------------- /mousemove
\* handle_mouse that does not look at the mouse-look mode
handle_mouse_in_any_mode(mouse_x, mouse_y, head_angle_deg) ==
  LET mouse_sensitivity == 15
      md == remap_to_range(mouse_x, 0, MouseScale, -mouse_sensitivity, mouse_sensitivity)
      desired_head_angle == remap_to_range(mouse_y, 0, MouseScale, 45, -25)
      head_angle_delta == desired_head_angle - head_angle_deg
      head_vel == head_angle_delta * 3
  IN /\ mouse_dir' = md
     /\ emitted' = update_mouse_driving(drive_forwards, drive_back, turn_left,
                                        turn_right, md, go_fast, go_slow)
                   \o << Cmd("set_head_motor", << head_vel >>) >>
     /\ UNCHANGED << keyflags, speedflags, is_mouse_look_enabled, torchIsEnabled,
                     anims, queue, text_to_say >>

\* handle_mouse; head_angle_deg is util.radians(vector.head_angle_rad).degrees,
\* the robot's current head angle (an input from the robot)
handle_mouse(mouse_x, mouse_y, head_angle_deg) ==
  IF is_mouse_look_enabled
    THEN LET mouse_sensitivity == 15
             md == remap_to_range(mouse_x, 0, MouseScale, -mouse_sensitivity, mouse_sensitivity)
             desired_head_angle == remap_to_range(mouse_y, 0, MouseScale, 45, -25)
             head_angle_delta == desired_head_angle - head_angle_deg
             head_vel == head_angle_delta * 3
         IN /\ mouse_dir' = md
            /\ emitted' = update_mouse_driving(drive_forwards, drive_back, turn_left,
                                               turn_right, md, go_fast, go_slow)
                          \o << Cmd("set_head_motor", << head_vel >>) >>
            /\ UNCHANGED << keyflags, speedflags, is_mouse_look_enabled, torchIsEnabled,
                            anims, queue, text_to_say >>
    ELSE /\ emitted' = << >>
         /\ UNCHANGED controller

handle_mousemove(clientX, clientY, head_angle_deg) ==
  /\ pc = "idle"
  /\ op' = "/mousemove"
  /\ response' = << >> /\ UNCHANGED feed
  /\ UNCHANGED session
  /\ IF session
       THEN handle_mouse(clientX, clientY, head_angle_deg) /\ fault' = FALSE
            /\ UNCHANGED << torch, hist >>
       ELSE NoSession
  /\ Track

\* --------------------------------------------------- /setMouseLookEnabled
\* set_mouse_look_enabled that forgets to cancel the mouse turning
set_mouse_look_enabled_keep_turn(enabled) ==
  LET was_mouse_look_enabled == is_mouse_look_enabled
  IN /\ is_mouse_look_enabled' = enabled
     /\ UNCHANGED mouse_dir
     /\ emitted' = IF ~enabled /\ was_mouse_look_enabled
                     THEN update_mouse_driving(drive_forwards, drive_back, turn_left,
                                               turn_right, mouse_dir, go_fast, go_slow)
                          \o update_head(head_up, head_down, go_fast, go_slow, enabled)
                     ELSE << >>
     /\ UNCHANGED << keyflags, speedflags, torchIsEnabled, anims, queue, text_to_say >>

set_mouse_look_enabled(enabled) ==
  LET was_mouse_look_enabled == is_mouse_look_enabled
      md == IF ~enabled THEN 0 ELSE mouse_dir
  IN /\ is_mouse_look_enabled' = enabled
     /\ mouse_dir' = md
     /\ emitted' = IF ~enabled /\ was_mouse_look_enabled
                     THEN update_mouse_driving(drive_forwards, drive_back, turn_left,
                                               turn_right, md, go_fast, go_slow)
                          \o update_head(head_up, head_down, go_fast, go_slow, enabled)
                     ELSE << >>
     /\ UNCHANGED << keyflags, speedflags, torchIsEnabled, anims, queue, text_to_say >>

handle_setMouseLookEnabled(isMouseLookEnabled) ==
  /\ pc = "idle"
  /\ op' = "/setMouseLookEnabled"
  /\ response' = << >> /\ UNCHANGED feed
  /\ UNCHANGED session
  /\ IF session
       THEN set_mouse_look_enabled(isMouseLookEnabled) /\ fault' = FALSE
            /\ UNCHANGED << torch, hist >>
       ELSE NoSession
  /\ Track

\* --------------------------------------------------- /setTorchModeEnabled
\* one activation of setTorchMode with the torch on: eyes and screen white
TorchOn == << Cmd("set_eye_color", << 0, 0 >>),
              Cmd("set_screen_to_color", << 255, 255, 255 >>) >>
\* the torch off: eyes red, screen black
TorchOff == << Cmd("set_eye_color", << 0, 100 >>),
               Cmd("set_screen_to_color", << 0, 0, 0 >>) >>

\* The handler stores the flag on the controller without testing that there is
\* one (None has no attribute torchIsEnabled: AttributeError), then calls
\* setTorchMode.  With the flag set, setTorchMode sends the two commands,
\* sleeps and calls itself: the handler stays inside that recursion.
handle_setTorchModeEnabled(isTorchModeEnabled) ==
  /\ pc = "idle"
  /\ op' = "/setTorchModeEnabled"
  /\ response' = << >> /\ UNCHANGED << feed, sent >>
  /\ UNCHANGED << session, keyflags, speedflags, is_mouse_look_enabled, mouse_dir,
                  anims, queue, text_to_say, hist >>
  /\ IF ~session
       THEN /\ fault' = TRUE
            /\ emitted' = << >>
            /\ UNCHANGED << torchIsEnabled, torch >>
       ELSE /\ torchIsEnabled' = isTorchModeEnabled
            /\ fault' = FALSE
            /\ IF isTorchModeEnabled
                 THEN emitted' = TorchOn /\ pc' = "setTorchMode" /\ depth' = 1
                 ELSE emitted' = TorchOff /\ UNCHANGED torch

\* the recursive call of setTorchMode after time.sleep(1); past the depth the
\* interpreter allows it ends in RecursionError
setTorchMode ==
  /\ pc = "setTorchMode"
  /\ UNCHANGED << session, controller, hist, op, response, feed, sent >>
  /\ IF depth < MaxDepth
       THEN /\ emitted' = emitted \o TorchOn
            /\ depth' = depth + 1
            /\ UNCHANGED << pc, fault >>
       ELSE /\ fault' = TRUE
            /\ pc' = "idle" /\ depth' = 0
            /\ UNCHANGED emitted

\* ----------------------------------------------------- /setFreeplayEnabled
handle_setFreeplayEnabled(isFreeplayEnabled) ==
  /\ pc = "idle"
  /\ op' = "/setFreeplayEnabled"
  /\ response' = << >> /\ UNCHANGED << feed, sent >>
  /\ UNCHANGED session
  /\ IF session
       THEN /\ emitted' = IF isFreeplayEnabled
                            THEN << Cmd("release_control", << >>) >>
                            ELSE << Cmd("request_control", << >>),
                                    Cmd("set_eye_color", << 0, 100 >>) >>
            /\ fault' = FALSE
            /\ UNCHANGED << controller, torch, hist >>
       ELSE NoSession

\* --------------------------------------------------------- /dropDownSelect
set_anim(key_index, anim_index) ==
  anim_index_for_key' = [anim_index_for_key EXCEPT ![key_index] = anim_index]

\* itemName is << prefix, N >>, standing for the string prefix + str(N)
handle_dropDownSelect(itemName, selectedIndex) ==
  LET item_name_prefix == "animSelector"
  IN /\ pc = "idle"
     /\ op' = "/dropDownSelect"
     /\ response' = << >> /\ UNCHANGED << feed, sent >>
     /\ UNCHANGED session
     /\ IF session /\ itemName[1] = item_name_prefix
          THEN LET item_name_index == itemName[2]
               IN /\ set_anim(item_name_index, selectedIndex)
                  /\ emitted' = << >> /\ fault' = FALSE
                  /\ UNCHANGED << keyflags, speedflags, modes, anim_names, queue,
                                  text_to_say, torch, hist >>
          ELSE NoSession

\* ---------------------------------------------------------------- /sayText
\* handle_sayText whose queued say_text actions follow the new text
handle_sayText_rewrites_queue(textEntered) ==
  /\ pc = "idle"
  /\ op' = "/sayText"
  /\ response' = << >> /\ UNCHANGED << feed, sent >>
  /\ UNCHANGED session
  /\ IF session
       THEN /\ text_to_say' = textEntered
            /\ action_queue' = [i \in 1..Len(action_queue) |->
                                  IF action_queue[i].func = "say_text"
                                    THEN [action_queue[i] EXCEPT !.args = textEntered]
                                    ELSE action_queue[i]]
            /\ emitted' = << >> /\ fault' = FALSE
            /\ UNCHANGED << keyflags, speedflags, modes, anims, nenq, torch, hist >>
       ELSE NoSession

handle_sayText(textEntered) ==
  /\ pc = "idle"
  /\ op' = "/sayText"
  /\ response' = << >> /\ UNCHANGED << feed, sent >>
  /\ UNCHANGED session
  /\ IF session
       THEN /\ text_to_say' = textEntered
            /\ emitted' = << >> /\ fault' = FALSE
            /\ UNCHANGED << keyflags, speedflags, modes, anims, queue, torch, hist >>
       ELSE NoSession

\* ----------------------------------------------------------- /updateVector
\* update() that drops the head whatever the call returns
update_always_pop(done) ==
  IF action_queue # << >>
    THEN LET head == action_queue[1]
         IN /\ emitted' = << Cmd(head.func, << head.args >>) >>
            /\ dispatch_log' = Append(dispatch_log, head.id)
            /\ nfailed' = IF done THEN nfailed ELSE nfailed + 1
            /\ action_queue' = Tail(action_queue)
            /\ UNCHANGED evicted
    ELSE /\ emitted' = << >>
         /\ UNCHANGED << action_queue, hist >>

\* update() that takes the newest entry instead of the head
update_newest_first(done) ==
  IF action_queue # << >>
    THEN LET last == action_queue[Len(action_queue)]
         IN /\ emitted' = << Cmd(last.func, << last.args >>) >>
            /\ dispatch_log' = Append(dispatch_log, last.id)
            /\ nfailed' = IF done THEN nfailed ELSE nfailed + 1
            /\ action_queue' = IF done THEN SubSeq(action_queue, 1, Len(action_queue) - 1)
                                       ELSE action_queue
            /\ UNCHANGED evicted
    ELSE /\ emitted' = << >>
         /\ UNCHANGED << action_queue, hist >>

\* update() that speaks text_to_say when the queue is empty
update_say_when_idle(done) ==
  IF action_queue # << >>
    THEN LET head == action_queue[1]
         IN /\ emitted' = << Cmd(head.func, << head.args >>) >>
            /\ dispatch_log' = Append(dispatch_log, head.id)
            /\ nfailed' = IF done THEN nfailed ELSE nfailed + 1
            /\ action_queue' = IF done THEN Tail(action_queue) ELSE action_queue
            /\ UNCHANGED evicted
    ELSE /\ emitted' = << Cmd("say_text", << text_to_say >>) >>
         /\ UNCHANGED << action_queue, hist >>

\* update(): call the head action; `done` is the truth value the call returns
update(done) ==
  IF action_queue # << >>
    THEN LET head == action_queue[1]
         IN /\ emitted' = << Cmd(head.func, << head.args >>) >>
            /\ dispatch_log' = Append(dispatch_log, head.id)
            /\ nfailed' = IF done THEN nfailed ELSE nfailed + 1
            /\ action_queue' = IF done THEN Tail(action_queue) ELSE action_queue
            /\ UNCHANGED evicted
    ELSE /\ emitted' = << >>
         /\ UNCHANGED << action_queue, hist >>

\* func_to_name, on the names the model gives the robot's two functions
func_to_name(func) ==
  IF func = "say_text" THEN "say_text"
  ELSE IF func = "play_animation" THEN "play_anim"
  ELSE "UNKNOWN"

\* action_to_text: the pieces of the string, in order
action_to_text(action) == << func_to_name(action.func), "( ", action.args, " )" >>

\* the loop of handle_updateVector: one numbered line per queued action
action_queue_text(q) ==
  [i \in 1..Len(q) |-> << i, ": ", action_to_text(q[i]), "<br>" >>]

\* the body is the header, the lines of the queue as update() left it, and "\n"
handle_updateVector(done) ==
  /\ pc = "idle"
  /\ op' = "/updateVector"
  /\ UNCHANGED << session, feed, sent >>
  /\ IF session
       THEN /\ update(done)
            /\ fault' = FALSE
            /\ response' = << "Action Queue:<br>", action_queue_text(action_queue'), "\n" >>
            /\ UNCHANGED << keyflags, speedflags, modes, anims, nenq, text_to_say, torch >>
       ELSE NoSession /\ response' = << >>


\* ------------------------------------------------------------ /vectorImage
\* An image is a tuple: << "frame", n >> is the n-th frame of the camera and
\* << "default", w, h >> the grey place-holder; None is the empty tuple.
None == << >>
create_default_image(image_width, image_height) == << "default", image_width, image_height >>
_default_camera_image == create_default_image(320, 240)

\* the number of a camera frame, 0 for anything else
FrameNo(image) == IF Len(image) = 2 /\ image[1] = "frame" THEN image[2] ELSE 0

\* get_annotated_image without the test for None
get_annotated_image_unchecked == latest_image

\* get_annotated_image: the camera's latest image, or the place-holder while
\* the camera has none
get_annotated_image == IF latest_image = None THEN _default_camera_image ELSE latest_image

\* a camera feed that waits until no stream is open
camera_frame_waits_for_readers ==
  /\ session /\ FrameNo(latest_image) < MaxFrames
  /\ streams = {}
  /\ latest_image' = << "frame", FrameNo(latest_image) + 1 >>
  /\ op' = "camera_frame"
  /\ UNCHANGED << session, controller, emitted, fault, torch, hist, response,
                  streams, yielded, sent >>

\* the camera feed of the SDK stores a frame in vector.camera.latest_image; it
\* runs beside the request handlers and touches nothing else
camera_frame ==
  /\ session /\ FrameNo(latest_image) < MaxFrames
  /\ latest_image' = << "frame", FrameNo(latest_image) + 1 >>
  /\ op' = "camera_frame"
  /\ UNCHANGED << session, controller, emitted, fault, torch, hist, response,
                  streams, yielded, sent >>

\* serve_single_image: the body is one image
serve_single_image ==
  IF session
    THEN LET image == get_annotated_image
         IN response' = << "image", IF image # None THEN image ELSE _default_camera_image >>
    ELSE response' = << "image", _default_camera_image >>

\* /vectorImage: one image for a Microsoft browser, else the multipart stream
\* whose generator r starts with the response
handle_vectorImage(is_microsoft_browser, r) ==
  /\ pc = "idle"
  /\ op' = "/vectorImage"
  /\ emitted' = << >> /\ fault' = FALSE
  /\ UNCHANGED << session, controller, torch, hist, latest_image, yielded, sent >>
  /\ IF is_microsoft_browser
       THEN serve_single_image /\ UNCHANGED streams
       ELSE /\ r \notin streams
            /\ streams' = streams \cup {r}
            /\ response' = << "multipart" >>

\* one turn of the loop of streaming_video in generator r: a chunk with the
\* image, or a sleep while there is no controller
streaming_video(r) ==
  /\ pc = "idle" /\ r \in streams
  /\ op' = "streaming_video"
  /\ emitted' = << >> /\ fault' = FALSE
  /\ UNCHANGED << session, controller, torch, hist, latest_image, streams, sent >>
  /\ IF session
       THEN LET image == get_annotated_image
            IN /\ yielded' = [yielded EXCEPT ![r] = image]
               /\ response' = << "--frame", r, image >>
       ELSE UNCHANGED << yielded, response >>

\* ------------------------------------------------------------------ inputs
\* the robot's anim_list, as the set of its names
FullAnimList == { AllAnimNames[i] : i \in 1..Len(AllAnimNames) }
AnimLists ==
  { FullAnimList,
    FullAnimList \ {"anim_wakeword_groggyeyes_listenloop_01"},
    {"ANIMATION_TEST", "anim_eyepose_sad_down", "anim_turn_left_01", "anim_volume_stage_05"} }

WheelKeys == {KEY_W, KEY_S, KEY_A, KEY_D}
LiftKeys == {KEY_R, KEY_F}
HeadKeys == {KEY_T, KEY_G}
MouseXs == {-1, 0, 2, 5, 10, 11}           \* tenths; -1 and 11 lie outside the window
MouseYs == {0, 11}
HeadAngles == {0, 45}                 \* degrees

\* a key event that queues an action is explored while fewer than `max` were
WithinEnq(k, d, max) == ReleaseAction(k, d).kind = "queue" => nenq < max

\* ------------------------------------------- driving: wheel keys and mouse
NextDrive ==
  \/ run(FullAnimList)
  \/ \E k \in WheelKeys \cup {KEY_X}, s \in BOOLEAN, a \in BOOLEAN, d \in BOOLEAN :
       handle_key_event(k, s, a, d)
  \/ \E x \in MouseXs, y \in MouseYs, ang \in HeadAngles : handle_mousemove(x, y, ang)
  \/ \E b \in BOOLEAN : handle_setMouseLookEnabled(b)

SpecDrive == Init /\ [][NextDrive]_vars

\* ------------------------------------ the three axes and the docking key
AxisKeys == {KEY_W, KEY_D} \cup LiftKeys \cup HeadKeys \cup {KEY_H, KEY_X}

NextAxes ==
  \/ run(FullAnimList)
  \/ \E k \in AxisKeys, s \in BOOLEAN, a \in BOOLEAN, d \in BOOLEAN :
       handle_key_event(k, s, a, d)
  \/ \E b \in BOOLEAN : handle_setMouseLookEnabled(b)

SpecAxes == Init /\ [][NextAxes]_vars


\* -------------------------------- the queue, every dispatch completing
QueueCap == 11

NextFifo ==
  \/ run(FullAnimList)
  \/ \E d \in BOOLEAN :
       WithinEnq(KEY_SPACE, d, MaxEnq) /\ handle_key_event(KEY_SPACE, FALSE, FALSE, d)
  \/ WithinEnq(KEY_5, FALSE, MaxMixed) /\ handle_key_event(KEY_5, FALSE, FALSE, FALSE)
  \/ handle_updateVector(TRUE)

\* the page posts /updateVector periodically: a tick that can change something
\* is eventually served
SpecFifo == Init /\ [][NextFifo]_vars /\ WF_vars(handle_updateVector(TRUE))

\* ------------------------- the queue, dispatches that may not complete
NextTick ==
  \/ run(FullAnimList)
  \/ \E d \in BOOLEAN :
       WithinEnq(KEY_SPACE, d, MaxEnq) /\ handle_key_event(KEY_SPACE, FALSE, FALSE, d)
  \/ WithinEnq(KEY_5, FALSE, MaxMixed) /\ handle_key_event(KEY_5, FALSE, FALSE, FALSE)
  \/ handle_updateVector(TRUE)
  \/ nfailed < MaxRetry /\ handle_updateVector(FALSE)

SpecTick == Init /\ [][NextTick]_vars

\* ------------------------------------------ every route, small inputs
Texts == {"Hi I'm Vector", "Go"}
\* the option values of the page's dropdowns: the indices of the catalog
DropDownIndices ==
  IF ~session THEN {0}
  ELSE IF anim_names = << >> THEN {} ELSE {0, Len(anim_names) - 1}

NextSession ==
  \/ run(FullAnimList)
  \/ \E k \in {KEY_5, KEY_X}, d \in BOOLEAN :
       WithinEnq(k, d, MaxPending) /\ handle_key_event(k, FALSE, FALSE, d)
  \/ handle_mousemove(2, 0, 0)
  \/ \E b \in BOOLEAN : handle_setMouseLookEnabled(b)
  \/ \E b \in BOOLEAN : handle_setTorchModeEnabled(b)
  \/ setTorchMode
  \/ \E b \in BOOLEAN : handle_setFreeplayEnabled(b)
  \/ \E n \in {<< "animSelector", 5 >>, << "sayText", 5 >>}, i \in DropDownIndices :
       handle_dropDownSelect(n, i)
  \/ \E t \in Texts : handle_sayText(t)
  \/ handle_updateVector(TRUE)

SpecSession == Init /\ [][NextSession]_vars

\* ------------------------- animation bindings over the robot's catalogs
BindingKeys == {KEY_0, KEY_5, KEY_7, KEY_SPACE, KEY_X}

NextBindings ==
  \/ \E al \in AnimLists : run(al)
  \/ \E k \in BindingKeys, d \in BOOLEAN :
       WithinEnq(k, d, MaxPending) /\ handle_key_event(k, FALSE, FALSE, d)
  \/ \E n \in {<< "animSelector", 5 >>, << "animSelector", 7 >>, << "sayText", 5 >>},
        i \in DropDownIndices :
       handle_dropDownSelect(n, i)
  \/ \E t \in Texts : handle_sayText(t)
  \/ handle_updateVector(TRUE)

SpecBindings == Init /\ [][NextBindings]_vars

\* ------------------------------- head keys and the mouse, in and out of mouse-look
NextHead ==
  \/ run(FullAnimList)
  \/ \E k \in HeadKeys \cup {KEY_R, KEY_X}, s \in BOOLEAN, a \in BOOLEAN, d \in BOOLEAN :
       handle_key_event(k, s, a, d)
  \/ \E x \in {0, 5}, y \in MouseYs, ang \in HeadAngles : handle_mousemove(x, y, ang)
  \/ \E b \in BOOLEAN : handle_setMouseLookEnabled(b)

SpecHead == Init /\ [][NextHead]_vars

\* ------------------------- wheels and lift together, keys, mouse and mode
IntentKeys == {KEY_W, KEY_S, KEY_D} \cup LiftKeys \cup {KEY_X}

NextIntent ==
  \/ run(FullAnimList)
  \/ \E k \in IntentKeys, s \in BOOLEAN, a \in BOOLEAN, d \in BOOLEAN :
       handle_key_event(k, s, a, d)
  \/ \E x \in {2, 10} : handle_mousemove(x, 0, 0)
  \/ \E b \in BOOLEAN : handle_setMouseLookEnabled(b)

SpecIntent == Init /\ [][NextIntent]_vars

\* --------------------------------------------- the camera and its viewers
NextFeed ==
  \/ run(FullAnimList)
  \/ camera_frame
  \/ \E ms \in BOOLEAN, r \in Readers : handle_vectorImage(ms, r)
  \/ \E r \in Readers : streaming_video(r)

SpecFeed == Init /\ [][NextFeed]_vars

\* =================================================================== claims
\* vocabulary of the claims, stated apart from the operators that model the code
HasCmd(out, name) == \E i \in 1..Len(out) : out[i].cmd = name
CountCmd(out, name) == Cardinality({ i \in 1..Len(out) : out[i].cmd = name })

\* the speed tier of the shift/alt flags
Tier(gf, gs) ==
  IF gf = 1 /\ gs = 0 THEN "Fast" ELSE IF gf = 0 /\ gs = 1 THEN "Slow" ELSE "Normal"

ForwardSpeedOf(tier) == IF tier = "Fast" THEN 150 ELSE IF tier = "Normal" THEN 75 ELSE 50
TurnSpeedOf(tier) == IF tier = "Fast" THEN 100 ELSE IF tier = "Normal" THEN 50 ELSE 30

\* the reference wheel_command; turn10 is the nominal turn_dir in tenths
WheelRef(drive_dir, turn10, tier) ==
  LET t == IF drive_dir < 0 THEN 0 - turn10 ELSE turn10
      left == (drive_dir * ForwardSpeedOf(tier) * 10 + TurnSpeedOf(tier) * t) \div 10
      right == (drive_dir * ForwardSpeedOf(tier) * 10 - TurnSpeedOf(tier) * t) \div 10
  IN << left, right, 4 * left, 4 * right >>

Sign(n) == IF n > 0 THEN 1 ELSE IF n < 0 THEN -1 ELSE 0

\* the controller's present intent
DriveDir == drive_forwards - drive_back
KeyTurn10 == (turn_right - turn_left) * 10
NominalTurn10 == KeyTurn10 + mouse_dir

\* the step is a key event with key code k served by the controller (the
\* shift, alt and press/release inputs are read back from what the handler
\* stored: go_fast, go_slow and the route)
KeyStep(k) == handle_key_event(k, go_fast' = 1, go_slow' = 1, op' = "/keydown")

\* the ids of the queue entries, head first
QueueIds == [i \in 1..Len(action_queue) |-> action_queue[i].id]
InQueue(i) == i \in Ids(action_queue)
Dispatched(i) == \E j \in 1..Len(dispatch_log) : dispatch_log[j] = i
TimesDispatched(i) == Cardinality({ j \in 1..Len(dispatch_log) : dispatch_log[j] = i })

\* C1: the queue never holds more than 11 actions; queuing onto 11 drops exactly
\* the head and appends the new action at the tail, so that 12 enqueues and no
\* tick leave the last 11 actions in their order.
C1_Bound ==
  /\ Len(action_queue) <= QueueCap
  /\ (nenq >= QueueCap + 1 /\ dispatch_log = << >>) =>
        QueueIds = [i \in 1..QueueCap |-> nenq - QueueCap + i]

C1_Step ==
  (nenq' = nenq + 1) =>
     LET new == action_queue'[Len(action_queue')]
     IN /\ new.id = nenq'
        /\ action_queue' = IF Len(action_queue) = QueueCap
                             THEN Append(Tail(action_queue), new)
                             ELSE Append(action_queue, new)
        /\ evicted' = IF Len(action_queue) = QueueCap
                        THEN evicted \cup {action_queue[1].id}
                        ELSE evicted

\* C1: the bound holds in every state and every enqueue appends at the tail,
\* dropping the head exactly when the queue holds 11.
C1_QueueCapacity == [](C1_Bound) /\ [][C1_Step]_vars

\* twelve actions were queued and none dispatched: the first one is gone
C1_Witness ==
  /\ nenq = QueueCap + 1 /\ dispatch_log = << >>
  /\ Len(action_queue) = QueueCap /\ action_queue[1].id = 2 /\ evicted = {1}

\* C2: a tick dispatches at most one action, the head of the queue, and removes
\* it only if the dispatch reported completion; otherwise the queue is left as
\* it was and the tick ends without an error.  Nothing but a tick shortens the
\* queue.
C2_Step ==
  /\ (session /\ op' = "/updateVector") =>
       /\ ~fault'
       /\ IF action_queue = << >>
            THEN emitted' = << >> /\ action_queue' = << >> /\ dispatch_log' = dispatch_log
            ELSE /\ emitted' = << Cmd(action_queue[1].func, << action_queue[1].args >>) >>
                 /\ dispatch_log' = Append(dispatch_log, action_queue[1].id)
                 /\ IF nfailed' = nfailed
                      THEN action_queue' = Tail(action_queue)
                      ELSE action_queue' = action_queue
  /\ Len(action_queue') < Len(action_queue) => op' = "/updateVector"
  /\ dispatch_log' # dispatch_log => op' = "/updateVector"

\* C2: every step obeys the tick rule: one dispatch, of the head, removed only
\* on completion; no other step shortens the queue.
C2_TickDispatch == [][C2_Step]_vars

\* a tick dispatched the head of a full queue, the dispatch did not complete,
\* and the head is still there
C2_Witness ==
  /\ op = "/updateVector" /\ nfailed >= 1 /\ Len(action_queue) = QueueCap
  /\ dispatch_log # << >>
  /\ dispatch_log[Len(dispatch_log)] = action_queue[1].id
  /\ evicted # {}

\* C3: a key event queues an action only on release: the release of a digit
\* queues one PlayAnimation of the catalog entry bound to the digit's slot, the
\* release of the space key one Speak of text_to_say, and every press and every
\* release of another key leaves the queue as it was.
C3_Step ==
  \A k \in BindingKeys :
    (session /\ KeyStep(k)) =>
      IF op' = "/keyup" /\ k >= KEY_0 /\ k <= KEY_9
        THEN /\ ValidIndex(anim_names, anim_index_for_key[k - KEY_0])
             /\ LET new == [func |-> "play_animation",
                            args |-> anim_names[anim_index_for_key[k - KEY_0] + 1],
                            id |-> nenq + 1]
                IN \/ action_queue' = Append(action_queue, new)
                   \/ action_queue # << >> /\ action_queue' = Append(Tail(action_queue), new)
      ELSE IF op' = "/keyup" /\ k = KEY_SPACE
        THEN LET new == [func |-> "say_text", args |-> text_to_say, id |-> nenq + 1]
             IN \/ action_queue' = Append(action_queue, new)
                \/ action_queue # << >> /\ action_queue' = Append(Tail(action_queue), new)
      ELSE action_queue' = action_queue

\* C3: every key event queues what the claim says, and nothing else.
C3_Original == [][C3_Step]_vars

\* C4: with every dispatch completing, the actions go to the robot in the order
\* they were queued: every queued action is in the queue, dropped by overflow,
\* or dispatched exactly once; a tick dispatches one action, the oldest left;
\* and with ticks arriving every queued action is eventually dispatched unless
\* overflow drops it.
C4_Order ==
  /\ \A j \in 1..Len(dispatch_log) : \A k \in 1..Len(dispatch_log) :
        j < k => dispatch_log[j] < dispatch_log[k]
  /\ \A i \in 1..nenq :
        /\ InQueue(i) \/ i \in evicted \/ Dispatched(i)
        /\ ~(InQueue(i) /\ i \in evicted)
        /\ ~(InQueue(i) /\ Dispatched(i))
        /\ ~(i \in evicted /\ Dispatched(i))
        /\ TimesDispatched(i) <= 1
  /\ \A i \in Ids(action_queue) : \A j \in 1..Len(dispatch_log) : dispatch_log[j] < i

C4_TickStep ==
  (session /\ op' = "/updateVector" /\ action_queue # << >>) =>
     /\ dispatch_log' = Append(dispatch_log, action_queue[1].id)
     /\ \A i \in Ids(action_queue) : action_queue[1].id <= i

C4_Eventually ==
  \A i \in 1..MaxEnq : [](InQueue(i) => <>(Dispatched(i) \/ i \in evicted))

\* C4: dispatch order, one dispatch per tick, and eventual dispatch.
C4_FifoDispatch == [](C4_Order) /\ [][C4_TickStep]_vars /\ C4_Eventually

\* an action was dropped by overflow and the one queued after it was dispatched
C4_Witness ==
  /\ evicted = {1} /\ dispatch_log # << >> /\ dispatch_log[1] = 2
  /\ Len(dispatch_log) >= 3 /\ action_queue # << >>

\* C5: set_mouse_look_enabled(false) while mouse-look is enabled sets
\* mouse_dir to 0 and sends exactly one wheel command, computed from the held
\* keys with no mouse contribution, and exactly one head command;
\* set_mouse_look_enabled(true) sends no command at all.
C5_Step ==
  (session /\ op' = "/setMouseLookEnabled") =>
     /\ (is_mouse_look_enabled /\ ~is_mouse_look_enabled') =>
          /\ mouse_dir' = 0
          /\ Len(emitted') = 2
          /\ CountCmd(emitted', "set_head_motor") = 1
          /\ \E i \in 1..2 :
               /\ emitted'[i].cmd = "set_wheel_motors"
               /\ emitted'[i].args = WheelRef(DriveDir, KeyTurn10, Tier(go_fast, go_slow))
     /\ is_mouse_look_enabled' => emitted' = << >>

\* C5: every /setMouseLookEnabled step sends what the claim says.
C5_MouseLookDisable == [][C5_Step]_vars

\* mouse-look was switched off with W and D held: a wheel and a head command
C5_Witness ==
  /\ op = "/setMouseLookEnabled" /\ ~is_mouse_look_enabled
  /\ Len(emitted) = 2 /\ drive_forwards = 1 /\ turn_right = 1

\* C6 as stated: an axis gets a command from a key event only if the key is one
\* of the axis's keys or the speed TIER changed with the event.
C6_TierStep ==
  \A k \in AxisKeys :
    (session /\ KeyStep(k)) =>
      LET tier_changed == Tier(go_fast, go_slow) # Tier(go_fast', go_slow')
      IN /\ HasCmd(emitted', "set_wheel_motors") => (k \in WheelKeys \/ tier_changed)
         /\ HasCmd(emitted', "set_lift_motor") => (k \in LiftKeys \/ tier_changed)
         /\ HasCmd(emitted', "set_head_motor") => (k \in HeadKeys \/ tier_changed)

\* C6 as stated: no axis command without an axis key or a tier change.
C6_Original == [][C6_TierStep]_vars

\* C6 amended: an axis gets a command from a key event only if the key is one of
\* the axis's keys or the go_fast/go_slow flags changed with the event (also
\* when both flags flip and the tier stays Normal).
C6_FlagStep ==
  \A k \in AxisKeys :
    (session /\ KeyStep(k)) =>
      LET flags_changed == go_fast # go_fast' \/ go_slow # go_slow'
      IN /\ HasCmd(emitted', "set_wheel_motors") => (k \in WheelKeys \/ flags_changed)
         /\ HasCmd(emitted', "set_lift_motor") => (k \in LiftKeys \/ flags_changed)
         /\ HasCmd(emitted', "set_head_motor") => (k \in HeadKeys \/ flags_changed)

\* C6 amended: no axis command without an axis key or a change of the flags.
C6_AxisEmission == [][C6_FlagStep]_vars

\* a key event that moved the lift alone: no wheel and no head command
C6_Witness ==
  /\ op \in {"/keydown", "/keyup"}
  /\ Len(emitted) = 1 /\ emitted[1].cmd = "set_lift_motor" /\ emitted[1].args # << 0 >>

\* C7: every press of H sends the dock command, whatever else changed, and no
\* key event with another key code sends it.
C7_Step ==
  \A k \in AxisKeys :
    (session /\ KeyStep(k)) =>
      /\ (k = KEY_H /\ op' = "/keydown") => HasCmd(emitted', "drive_on_charger")
      /\ k # KEY_H => ~HasCmd(emitted', "drive_on_charger")

\* C7: the dock command goes out on every press of H and for no other key.
C7_DockOnPress == [][C7_Step]_vars

\* H was pressed with nothing else changing: the dock command alone was sent
C7_Witness ==
  /\ op = "/keydown"
  /\ emitted # << >>
  /\ \A i \in 1..Len(emitted) : emitted[i].cmd = "drive_on_charger"

\* C8: with no controller bound, every mutating route returns normally, sends
\* the robot nothing and changes no state.
MutatingRoutes ==
  { "/keydown", "/keyup", "/mousemove", "/setMouseLookEnabled", "/setTorchModeEnabled",
    "/setFreeplayEnabled", "/dropDownSelect", "/sayText", "/updateVector" }

C8_Step ==
  (~session /\ op' \in MutatingRoutes) =>
     /\ ~fault'
     /\ emitted' = << >>
     /\ UNCHANGED << session, controller, torch >>

\* C8: every request served without a controller is a no-op that returns normally.
C8_Original == [][C8_Step]_vars

\* C9: once the controller is built, each of the 10 slots holds an index that
\* is valid into the catalog, and resolving a released digit never fails.
C9_Original ==
  session =>
    /\ \A k \in 0..9 : ValidIndex(anim_names, anim_index_for_key[k])
    /\ (op = "/keyup" => ~fault)

\* C10: every wheel command sent equals the reference wheel_command of the
\* controller's intent; driving forward at Normal with no turn it is
\* (75, 75, 300, 300); and the left/right difference has the sign of the nominal
\* turn when not reversing and the opposite sign when reversing.
C10_WheelCommand ==
  \A i \in 1..Len(emitted) :
    emitted[i].cmd = "set_wheel_motors" =>
      LET w == emitted[i].args
      IN /\ w = WheelRef(DriveDir, NominalTurn10, Tier(go_fast, go_slow))
         /\ w[3] = 4 * w[1] /\ w[4] = 4 * w[2]
         /\ (DriveDir = 1 /\ NominalTurn10 = 0 /\ Tier(go_fast, go_slow) = "Normal")
              => w = << 75, 75, 300, 300 >>
         /\ Sign(w[1] - w[2])
              = (IF DriveDir < 0 THEN 0 - Sign(NominalTurn10) ELSE Sign(NominalTurn10))

\* a wheel command sent while reversing fast with a mouse turn on top of the D key
C10_Witness ==
  /\ HasCmd(emitted, "set_wheel_motors")
  /\ drive_back = 1 /\ drive_forwards = 0 /\ turn_right = 1 /\ mouse_dir = -9
  /\ go_fast = 1 /\ go_slow = 0

\* the other magnitudes of a tier: lift speed, and head speed in hundredths
LiftSpeedOf(tier) == IF tier = "Fast" THEN 8 ELSE IF tier = "Normal" THEN 4 ELSE 2
HeadSpeedOf(tier) == IF tier = "Fast" THEN 200 ELSE IF tier = "Normal" THEN 100 ELSE 50

\* C11: the speed tier is a function of (go_fast, go_slow) alone: (1,1) gives
\* Normal, (1,0) Fast, (0,1) Slow and (0,0) Normal; and every wheel, lift and
\* head command a key event sent carries the magnitude of the tier of the
\* shift/alt flags of that event (which the event stored in go_fast, go_slow).
C11_TierSelection ==
  /\ pick_speed(1, 1, "Fast", "Normal", "Slow") = "Normal"
  /\ pick_speed(1, 0, "Fast", "Normal", "Slow") = "Fast"
  /\ pick_speed(0, 1, "Fast", "Normal", "Slow") = "Slow"
  /\ pick_speed(0, 0, "Fast", "Normal", "Slow") = "Normal"
  /\ (session /\ op \in {"/keydown", "/keyup"}) =>
       \A i \in 1..Len(emitted) :
         LET tier == Tier(go_fast, go_slow)
         IN /\ emitted[i].cmd = "set_wheel_motors" =>
                 emitted[i].args = WheelRef(DriveDir, NominalTurn10, tier)
            /\ emitted[i].cmd = "set_lift_motor" =>
                 emitted[i].args = << (lift_up - lift_down) * LiftSpeedOf(tier) >>
            /\ emitted[i].cmd = "set_head_motor" =>
                 emitted[i].args = << (head_up - head_down) * HeadSpeedOf(tier) >>

\* a key event with shift and alt both down and the lift key held: the lift
\* command has the Normal magnitude
C11_Witness ==
  /\ session /\ op = "/keydown" /\ go_fast = 1 /\ go_slow = 1 /\ lift_up = 1 /\ lift_down = 0
  /\ \E i \in 1..Len(emitted) : emitted[i] = Cmd("set_lift_motor", << 4 >>)

\* C12: while mouse-look is enabled no key event sends a head command, whether
\* the key is T or G or the shift/alt flags changed; as long as the mode stays
\* enabled the only step that sends a head command is a mouse move.
C12_Step ==
  (session /\ is_mouse_look_enabled) =>
     /\ op' \in {"/keydown", "/keyup"} => ~HasCmd(emitted', "set_head_motor")
     /\ (is_mouse_look_enabled' /\ HasCmd(emitted', "set_head_motor")) => op' = "/mousemove"

\* C12: every step taken in mouse-look obeys the rule.
C12_HeadSuppressed == [][C12_Step]_vars

\* in mouse-look, a key event with the T key held changed the speed flags: the
\* lift got its command and the head got none
C12_Witness ==
  /\ session /\ is_mouse_look_enabled /\ op = "/keydown"
  /\ head_up = 1 /\ head_down = 0 /\ go_fast = 1
  /\ HasCmd(emitted, "set_lift_motor") /\ ~HasCmd(emitted, "set_head_motor")

\* C13: a mouse move while mouse-look is disabled is a no-op: mouse_dir, every
\* other field of the controller and the action queue stay as they were, and
\* no wheel or head command (no command at all) is sent.
C13_Step ==
  (session /\ ~is_mouse_look_enabled /\ op' = "/mousemove") =>
     /\ emitted' = << >> /\ ~fault'
     /\ UNCHANGED << controller, torch, hist >>

\* C13: every mouse move served with mouse-look disabled changes nothing.
C13_MouseMoveDisabled == [][C13_Step]_vars

\* the mouse moved while the robot was driving fast with mouse-look off
C13_Witness ==
  /\ session /\ op = "/mousemove" /\ ~is_mouse_look_enabled
  /\ drive_forwards = 1 /\ go_fast = 1 /\ mouse_dir = 0 /\ emitted = << >>

\* C14: a tick on an empty queue dispatches nothing, leaves the queue empty and
\* all other state as it was, and its body renders no pending action: the
\* header followed by no line.
C14_Step ==
  (session /\ op' = "/updateVector" /\ action_queue = << >>) =>
     /\ emitted' = << >> /\ ~fault'
     /\ action_queue' = << >>
     /\ UNCHANGED << controller, torch, hist, feed >>
     /\ response' = << "Action Queue:<br>", << >>, "\n" >>

\* C14: every tick served on an empty queue is a no-op with an empty rendering.
C14_EmptyTick == [][C14_Step]_vars

\* the ticks served so far all found the queue empty: nothing was dispatched
\* and the body lists nothing
C14_Witness ==
  /\ session /\ op = "/updateVector" /\ action_queue = << >> /\ dispatch_log = << >>
  /\ emitted = << >> /\ response[2] = << >>

\* what the viewers are to get: the grey 320 x 240 place-holder until a frame
\* has arrived, then the frame written last
ExpectedImage == IF latest_image = << >> THEN << "default", 320, 240 >> ELSE latest_image

\* C15: no path of the image feed fails; the single-frame path answers with,
\* and every turn of a streaming generator yields, the place-holder as long as
\* no camera frame has arrived and the frame written last once one has.
C15_Step ==
  /\ (op' = "/vectorImage" /\ response' # << "multipart" >>) =>
        ~fault' /\ response' = << "image", ExpectedImage >>
  /\ op' = "streaming_video" =>
        /\ ~fault'
        /\ session => \E r \in streams :
                         /\ response' = << "--frame", r, ExpectedImage >>
                         /\ yielded' = [yielded EXCEPT ![r] = ExpectedImage]
        /\ ~session => yielded' = yielded

\* C15: every step of the image feed serves the expected image.
C15_ImageFeed == [][C15_Step]_vars

\* one stream got the place-holder before the first frame, another the second
\* frame, and the single-frame path has just answered with that frame too
C15_Witness ==
  /\ op = "/vectorImage" /\ response = << "image", << "frame", 2 >> >>
  /\ latest_image = << "frame", 2 >>
  /\ yielded[1] = << "default", 320, 240 >> /\ yielded[2] = << "frame", 2 >>

\* the catalog holds the name
InCatalog(name) == \E i \in 1..Len(anim_names) : anim_names[i] = name

\* the configured default animation of digit d
DefaultAnimOf(d) ==
  CASE d = 0 -> "anim_turn_left_01"
    [] d = 1 -> "anim_blackjack_victorwin_01"
    [] d = 2 -> "anim_pounce_success_02"
    [] d = 3 -> "anim_feedback_shutup_01"
    [] d = 4 -> "anim_knowledgegraph_success_01"
    [] d = 5 -> "anim_wakeword_groggyeyes_listenloop_01"
    [] d = 6 -> "anim_fistbump_success_01"
    [] d = 7 -> "anim_reacttoface_unidentified_01"
    [] d = 8 -> "anim_rtpickup_loop_10"
    [] d = 9 -> "anim_volume_stage_05"

\* C16: while the bindings are the ones start-up made, the release of digit d
\* queues one PlayAnimation of the d-th default name (for '5',
\* "anim_wakeword_groggyeyes_listenloop_01"), in every catalog that holds
\* that name.
C16_Step ==
  \A k \in {KEY_0, KEY_5, KEY_7} :
    (/\ session /\ KeyStep(k) /\ op' = "/keyup"
     /\ anim_index_for_key = InitAnimIndexForKey(anim_names)
     /\ InCatalog(DefaultAnimOf(k - KEY_0))) =>
       /\ ~fault'
       /\ nenq' = nenq + 1
       /\ action_queue'[Len(action_queue')] =
             [func |-> "play_animation", args |-> DefaultAnimOf(k - KEY_0), id |-> nenq']

\* C16: every release of a digit under the default bindings queues its default.
C16_DefaultBinding == [][C16_Step]_vars

\* '5' was released under the default bindings: the wake-word animation is
\* the newest entry of the queue
C16_Witness ==
  /\ session /\ op = "/keyup" /\ action_queue # << >>
  /\ anim_index_for_key = InitAnimIndexForKey(anim_names)
  /\ action_queue[Len(action_queue)].func = "play_animation"
  /\ action_queue[Len(action_queue)].args = "anim_wakeword_groggyeyes_listenloop_01"
  /\ action_queue[Len(action_queue)].id = nenq

\* C18: start-up completes also when a default animation name is missing from
\* the catalog, and the slot of a missing name is bound to its own number.
C18_StartupFallback ==
  op = "run" =>
    /\ session /\ ~fault
    /\ \A d \in 0..9 : ~InCatalog(DefaultAnimOf(d)) => anim_index_for_key[d] = d

\* start-up on a catalog of three names: slot 5, whose default is missing,
\* holds 5
C18_Witness ==
  /\ op = "run" /\ session /\ Len(anim_names) = 3
  /\ ~InCatalog(DefaultAnimOf(5)) /\ anim_index_for_key[5] = 5

\* C17: remap clamps before it interpolates: on the grid of tenths,
\* remap(x, 0, 1, -1.5, 1.5) is -1.5 for every x <= 0, 1.5 for every x >= 1 and
\* 0 at x = 0.5; and mouse_dir lies in [-1.5, 1.5] in every state, whatever
\* mouse moves (inside or outside the window) and mode changes were served.
C17_RemapClamp ==
  /\ \A x \in -5..15 :
        /\ x <= 0 => remap_to_range(x, 0, 10, -15, 15) = -15
        /\ x >= 10 => remap_to_range(x, 0, 10, -15, 15) = 15
        /\ remap_to_range(x, 0, 10, -15, 15) >= -15
        /\ remap_to_range(x, 0, 10, -15, 15) <= 15
  /\ remap_to_range(5, 0, 10, -15, 15) = 0
  /\ mouse_dir >= -15 /\ mouse_dir <= 15

\* a mouse move at the right edge and below the window: mouse_dir is 1.5 and
\* the head is sent to the clamped angle of -25 degrees
C17_Witness ==
  /\ session /\ op = "/mousemove" /\ is_mouse_look_enabled /\ mouse_dir = 15
  /\ \E i \in 1..Len(emitted) : emitted[i] = Cmd("set_head_motor", << -75 >>)

\* C19: the dock command goes out on a press only: no key release, the
\* release of H included, sends it.
C19_Original ==
  (session /\ op = "/keyup") => ~HasCmd(emitted, "drive_on_charger")

\* C20: with a controller bound, every invocation of the /setTorchModeEnabled
\* handler ends on its own by returning, for isTorchModeEnabled true as for
\* false: the step that ends it is a normal return, never an exception.
C20_Step ==
  (session /\ op' = "/setTorchModeEnabled" /\ pc' = "idle") => ~fault'

\* C20: every torch request that ends, ends by returning.
C20_Original == [][C20_Step]_vars

\* the queue entry with id i, in queue q
EntryOf(q, i) == q[CHOOSE j \in 1..Len(q) : q[j].id = i]
\* the position of the entry with id i, in queue q
PosOf(q, i) == CHOOSE j \in 1..Len(q) : q[j].id = i

\* C21: a queued action is immutable.  The action a key release queues carries
\* the text_to_say, or the name bound to the digit, of the moment of the
\* release; afterwards every step leaves the function, the payload and the
\* relative order of the actions that stay in the queue as they were, and a
\* /sayText or /dropDownSelect request leaves the whole queue as it was.
C21_Step ==
  /\ \A i \in Ids(action_queue) \cap Ids(action_queue') :
        /\ EntryOf(action_queue', i) = EntryOf(action_queue, i)
        /\ \A j \in Ids(action_queue) \cap Ids(action_queue') :
              PosOf(action_queue, i) < PosOf(action_queue, j)
                => PosOf(action_queue', i) < PosOf(action_queue', j)
  /\ nenq' = nenq + 1 =>
        LET new == action_queue'[Len(action_queue')]
        IN /\ new.func = "say_text" => new.args = text_to_say
           /\ new.func = "play_animation" =>
                 \E d \in 0..9 : /\ ValidIndex(anim_names, anim_index_for_key[d])
                                  /\ new.args = anim_names[anim_index_for_key[d] + 1]
  /\ op' \in {"/sayText", "/dropDownSelect"} => action_queue' = action_queue

\* C21: every step keeps the queued actions as they were created.
C21_QueuedImmutable == [][C21_Step]_vars

\* the text was replaced and slot 5 rebound after a Speak and a PlayAnimation
\* were queued: both still carry what was current at their release
C21_Witness ==
  /\ session /\ text_to_say = "Go" /\ Len(action_queue) = 2
  /\ action_queue[1].func = "say_text" /\ action_queue[1].args = "Hi I'm Vector"
  /\ action_queue[2].func = "play_animation"
  /\ action_queue[2].args = "anim_wakeword_groggyeyes_listenloop_01"
  /\ anim_names[anim_index_for_key[5] + 1] # "anim_wakeword_groggyeyes_listenloop_01"
  /\ op \in {"/sayText", "/dropDownSelect"}

\* an image the viewers may be given: the place-holder, or a frame the camera
\* has written (the frames written are 1 .. FrameNo(latest_image))
Servable(image) ==
  \/ image = << "default", 320, 240 >>
  \/ \E n \in 1..FrameNo(latest_image) : image = << "frame", n >>

\* C22 (state): the camera's write is enabled whatever streams are open and
\* whatever they have yielded (the only limit is the number of frames the
\* model follows); what a stream yielded last and what the single-frame path
\* answered is the place-holder or a frame the camera wrote.
C22_Cell ==
  /\ (session /\ FrameNo(latest_image) < MaxFrames) => ENABLED camera_frame
  /\ \A r \in Readers : yielded[r] # << >> => Servable(yielded[r])
  /\ (op = "/vectorImage" /\ response # << "multipart" >>) => Servable(response[2])

\* C22 (step): a stream never yields a frame older than one it yielded before,
\* and a camera write changes the cell alone, to a newer frame.
C22_Step ==
  /\ \A r \in Readers : FrameNo(yielded'[r]) >= FrameNo(yielded[r])
  /\ latest_image' # latest_image =>
        /\ FrameNo(latest_image') > FrameNo(latest_image)
        /\ UNCHANGED << streams, yielded >>

C23_LastCommandCurrent ==
  LET tier == Tier(go_fast, go_slow)
  IN /\ last_wheel = WheelRef(DriveDir, NominalTurn10, tier)
     /\ last_lift = << (lift_up - lift_down) * LiftSpeedOf(tier) >>

\* driving forward fast with the lift going up, a mouse move to the right edge
\* was the last event: the wheels got its command, the lift's is an older one
C23_Witness ==
  /\ session /\ op = "/mousemove" /\ is_mouse_look_enabled /\ mouse_dir = 15
  /\ drive_forwards = 1 /\ drive_back = 0 /\ turn_right = 0
  /\ lift_up = 1 /\ lift_down = 0 /\ go_fast = 1 /\ go_slow = 0
  /\ last_wheel = << 300, 0, 1200, 0 >> /\ last_lift = << 8 >>
  /\ ~HasCmd(emitted, "set_lift_motor")

====
